---- MODULE Spec2Model ----
(***************************************************************************)
(* ray_lightning/examples/ray_ddp_example.py: the command-line script, the *)
(* two entry functions train_mnist and tune_mnist, and the data loaders of *)
(* MNISTClassifier.                                                        *)
(*                                                                         *)
(* Spec     : one run of the script (lines 123-185), with train_mnist,     *)
(*            tune_mnist and the trials tune.run starts.                   *)
(* SpecData : the loaders of MNISTClassifier called by the workers of a    *)
(*            fit (lines 23-58).                                           *)
(*                                                                         *)
(* Python's None is the string "None" where the value is a string, and the *)
(* empty sequence where an option of the command line is absent.  The      *)
(* learning rate is counted in units of 1e-4 (1e-1 is 1000).               *)
(***************************************************************************)
EXTENDS Integers, Sequences, FiniteSets, TLC

VARIABLES
    argv,        \* the command line: a valued option is <<>> (absent) or <<v>>
    args,        \* the argparse namespace (line 160)
    pc,          \* position of the script in the __main__ block
    locals,      \* num_epochs, num_workers, use_gpu, num_samples, data_dir (162-174)
    rayCalls,    \* the cluster-connection calls made so far (167-172)
    entries,     \* the calls of train_mnist / tune_mnist made by __main__ (176-185)
    tuneRun,     \* the tune.run call of tune_mnist and its progress (106-118)
    frame,       \* the running call of train_mnist (61-79)
    raised,      \* the exception in flight, raised by an external call
    exit,        \* how the script ended
    mnist,       \* the MNIST training set on disk
    dataset,     \* per worker: self.dataset of its model instance (23-28)
    loaders,     \* per worker: the last loaders train_/val_dataloader returned
    ncalls       \* per worker: number of loader calls made (bounded in total)

vars == <<argv, args, pc, locals, rayCalls, entries, tuneRun, frame, raised,
          exit, mnist, dataset, loaders, ncalls>>

scriptVars == <<argv, args, pc, locals, rayCalls, entries, tuneRun, frame,
                raised, exit>>

dataVars == <<mnist, dataset, loaders, ncalls>>

None == "None"

----------------------------------------------------------------------------
(* Bounds of the model *)

MaxWorkersArg == 2
MaxSamplesArg == 1
MaxEpochsArg == 2
MaxTrials == 2
MaxTrainLen == 2
MaxCalls == 3

----------------------------------------------------------------------------
(* The command line, lines 126-160 *)

DefaultNumWorkers == 1
DefaultNumSamples == 10
DefaultNumEpochs == 10

Opt(S) == {<<>>} \cup {<<v>> : v \in S}

Addresses == {"auto"}
ServerAddresses == {"", "srv:10001"}

Argv ==
    [num_workers : Opt(0..MaxWorkersArg),
     use_gpu : BOOLEAN,
     tune : BOOLEAN,
     num_samples : Opt(0..MaxSamplesArg),
     num_epochs : Opt(2..MaxEpochsArg),
     smoke_test : BOOLEAN,
     address : Opt(Addresses),
     server_address : Opt(ServerAddresses)]

\* add_argument(..., default=d): the value given, else the default
OptValue(opt, default) == IF opt = <<>> THEN default ELSE opt[1]

parse_known_args(a) ==
    [num_workers |-> OptValue(a.num_workers, DefaultNumWorkers),
     use_gpu |-> a.use_gpu,
     tune |-> a.tune,
     num_samples |-> OptValue(a.num_samples, DefaultNumSamples),
     num_epochs |-> OptValue(a.num_epochs, DefaultNumEpochs),
     smoke_test |-> a.smoke_test,
     address |-> OptValue(a.address, None),
     server_address |-> OptValue(a.server_address, None)]

\* the namespace before line 160 has run
NoArgs ==
    [num_workers |-> 0, use_gpu |-> FALSE, tune |-> FALSE, num_samples |-> 0,
     num_epochs |-> 0, smoke_test |-> FALSE, address |-> None,
     server_address |-> None]

\* the locals before lines 162-174 have run
NoLocals ==
    [num_epochs |-> 0, num_workers |-> 0, use_gpu |-> FALSE, num_samples |-> 0,
     data_dir |-> <<>>]

\* Python truth value of an optional string: None and "" are false
Truthy(s) == s # None /\ s # ""

\* int(use_gpu), lines 75, 114, 116
int(b) == IF b THEN 1 ELSE 0

----------------------------------------------------------------------------
(* Exceptions of the external libraries *)

Exceptions == {"RuntimeError", "ValueError"}

NoExc == [by |-> "none", exc |-> "none"]

Running == [status |-> "running", exc |-> NoExc]

----------------------------------------------------------------------------
(* __main__, lines 162-174 *)

\* lines 162-165 with a validation added: at least one worker
EffectiveSettings_validated(a) ==
    [num_epochs |-> IF a.smoke_test THEN 1 ELSE a.num_epochs,
     num_workers |-> IF a.smoke_test \/ a.num_workers < 1 THEN 1 ELSE a.num_workers,
     use_gpu |-> IF a.smoke_test THEN FALSE ELSE a.use_gpu,
     num_samples |-> IF a.smoke_test THEN 1 ELSE a.num_samples]

\* lines 162-165 with line 164 forgotten: --use-gpu survives --smoke-test
EffectiveSettings_keep_gpu(a) ==
    [num_epochs |-> IF a.smoke_test THEN 1 ELSE a.num_epochs,
     num_workers |-> IF a.smoke_test THEN 1 ELSE a.num_workers,
     use_gpu |-> a.use_gpu,
     num_samples |-> IF a.smoke_test THEN 1 ELSE a.num_samples]

\* lines 162-165
EffectiveSettings(a) ==
    [num_epochs |-> IF a.smoke_test THEN 1 ELSE a.num_epochs,
     num_workers |-> IF a.smoke_test THEN 1 ELSE a.num_workers,
     use_gpu |-> IF a.smoke_test THEN FALSE ELSE a.use_gpu,
     num_samples |-> IF a.smoke_test THEN 1 ELSE a.num_samples]

\* lines 167-172 with "is not None" for the truth value at line 169
ConnectCall_is_not_none(a) ==
    IF a.smoke_test
    THEN [fn |-> "ray.init", num_cpus |-> <<2>>, address |-> <<>>]
    ELSE IF a.server_address # None
         THEN [fn |-> "ray.util.connect", num_cpus |-> <<>>,
               address |-> <<a.server_address>>]
         ELSE [fn |-> "ray.init", num_cpus |-> <<>>, address |-> <<a.address>>]

\* lines 167-172: the cluster-connection call; a keyword not passed is <<>>
ConnectCall(a) ==
    IF a.smoke_test
    THEN [fn |-> "ray.init", num_cpus |-> <<2>>, address |-> <<>>]
    ELSE IF Truthy(a.server_address)
         THEN [fn |-> "ray.util.connect", num_cpus |-> <<>>,
               address |-> <<a.server_address>>]
         ELSE [fn |-> "ray.init", num_cpus |-> <<>>, address |-> <<a.address>>]

\* tempfile.gettempdir()
gettempdir == "/tmp"

\* line 174: os.path.join(tempfile.gettempdir(), "mnist_data_")
DataDir == <<gettempdir, "mnist_data_">>

----------------------------------------------------------------------------
(* Configs: line 179 and lines 88-93 *)

\* line 179 without the batch size
PlainConfig_no_batch_size == [layer_1 |-> 32, layer_2 |-> 64, lr |-> 1000]

PlainConfig == [layer_1 |-> 32, layer_2 |-> 64, lr |-> 1000, batch_size |-> 32]

\* values of the learning rate the model samples from, in units of 1e-4
LrGrid == {30, 1000}

\* tune.choice(categories): any of the categories
choice(categories) == categories

\* tune.loguniform(lower, upper): a value in [lower, upper)
loguniform(lower, upper) == {x \in LrGrid : lower <= x /\ x < upper}

SearchSpace ==
    [layer_1 |-> choice({32, 64, 128}),
     layer_2 |-> choice({64, 128, 256}),
     lr |-> loguniform(1, 1000),
     batch_size |-> choice({32, 64, 128})]

\* the configs tune.run may hand to a trial: one value per dimension
Samples(space) ==
    [layer_1 : space.layer_1, layer_2 : space.layer_2, lr : space.lr,
     batch_size : space.batch_size]

----------------------------------------------------------------------------
(* Calls of the entry functions, lines 176-185 *)

\* def tune_mnist(data_dir, num_samples, num_epochs, num_workers, use_gpu)
TuneMnistParams ==
    <<"data_dir", "num_samples", "num_epochs", "num_workers", "use_gpu">>

\* Python binds positional arguments to the parameters in order
BindPositional(params, values) ==
    [p \in {params[i] : i \in 1..Len(params)} |->
        values[CHOOSE i \in 1..Len(params) : params[i] = p]]

\* line 177 with num_epochs and num_samples in the order of train_mnist
MainTuneArgs_swapped(l) ==
    <<l.data_dir, l.num_epochs, l.num_samples, l.num_workers, l.use_gpu>>

\* line 177: tune_mnist(data_dir, num_samples, num_epochs, num_workers, use_gpu)
MainTuneArgs(l) ==
    <<l.data_dir, l.num_samples, l.num_epochs, l.num_workers, l.use_gpu>>

\* lines 179-185: train_mnist(config, data_dir=..., num_epochs=..., ...);
\* checkpoint_dir and callbacks keep their default None (<<>> for callbacks)
MainTrainArgs(l) ==
    [config |-> PlainConfig,
     checkpoint_dir |-> None,
     data_dir |-> l.data_dir,
     num_epochs |-> l.num_epochs,
     num_workers |-> l.num_workers,
     use_gpu |-> l.use_gpu,
     callbacks |-> <<>>]

----------------------------------------------------------------------------
(* tune_mnist, lines 82-120 *)

\* lines 96-97
TuneReportCallback ==
    [callback |-> "TuneReportCallback",
     metrics |-> [loss |-> "ptl/val_loss", acc |-> "ptl/val_accuracy"],
     on |-> "validation_end"]

\* lines 98-105: tune.with_parameters(train_mnist, ...)
with_parameters(p) ==
    [fn |-> "train_mnist",
     data_dir |-> p.data_dir,
     num_epochs |-> p.num_epochs,
     num_workers |-> p.num_workers,
     use_gpu |-> p.use_gpu,
     callbacks |-> <<TuneReportCallback>>]

\* lines 112-117 with the GPU factor of line 116 forgotten
ResourcesPerTrial_extra_gpu(p) ==
    [cpu |-> 1,
     gpu |-> int(p.use_gpu),
     extra_cpu |-> p.num_workers,
     extra_gpu |-> p.num_workers]

\* lines 112-117
ResourcesPerTrial(p) ==
    [cpu |-> 1,
     gpu |-> int(p.use_gpu),
     extra_cpu |-> p.num_workers,
     extra_gpu |-> p.num_workers * int(p.use_gpu)]

\* lines 106-118: the keyword arguments of tune.run
TuneRunCall(p) ==
    [trainable |-> with_parameters(p),
     metric |-> "loss",
     mode |-> "min",
     config |-> SearchSpace,
     num_samples |-> p.num_samples,
     resources_per_trial |-> ResourcesPerTrial(p),
     name |-> "tune_mnist"]

\* tune.run calls the trainable with a sampled config and checkpoint_dir
TrialArgs(trainable, config) ==
    [config |-> config,
     checkpoint_dir |-> None,
     data_dir |-> trainable.data_dir,
     num_epochs |-> trainable.num_epochs,
     num_workers |-> trainable.num_workers,
     use_gpu |-> trainable.use_gpu,
     callbacks |-> trainable.callbacks]

----------------------------------------------------------------------------
(* train_mnist, lines 61-79, and MNISTClassifier.__init__, lines 18-21 *)

NoModel == [built |-> FALSE, config |-> PlainConfig, data_dir |-> <<>>, batch_size |-> 0]

NoTrainer ==
    [built |-> FALSE, max_epochs |-> 0, gpus |-> 0, callbacks |-> <<>>,
     plugins |-> <<>>]

NoFrame ==
    [active |-> FALSE, caller |-> "none", pc |-> "none", args |-> MainTrainArgs(NoLocals),
     model |-> NoModel, trainer |-> NoTrainer, nModel |-> 0, nTrainer |-> 0,
     nFit |-> 0]

\* a call of train_mnist: the frame at line 69
NewFrame(caller, a) ==
    [active |-> TRUE, caller |-> caller, pc |-> "model", args |-> a,
     model |-> NoModel, trainer |-> NoTrainer, nModel |-> 0, nTrainer |-> 0,
     nFit |-> 0]

\* the key MNISTClassifier.__init__ looks up in config (line 21)
ConfigKeys == {"batch_size"}

\* the hyperparameters the base class reads from config at line 20: the layer
\* widths and the learning rate
BaseConfigKeys == {"layer_1", "layer_2", "lr"}

\* lines 19-21
MNISTClassifier(config, data_dir) ==
    [built |-> TRUE, config |-> config, data_dir |-> data_dir,
     batch_size |-> config["batch_size"]]

\* line 77
RayPlugin(num_workers, use_gpu) ==
    [plugin |-> "RayPlugin", num_workers |-> num_workers, use_gpu |-> use_gpu]

\* lines 71-78; callbacks or []: None and the empty list both give []
Trainer(a) ==
    [built |-> TRUE,
     max_epochs |-> a.num_epochs,
     gpus |-> int(a.use_gpu),
     callbacks |-> IF a.callbacks = <<>> THEN <<>> ELSE a.callbacks,
     plugins |-> <<RayPlugin(a.num_workers, a.use_gpu)>>]

\* an exception leaves train_mnist: the frame is unwound, its locals are gone
Unwound(f) ==
    [NoFrame EXCEPT !.active = TRUE, !.caller = f.caller, !.pc = "raised",
                    !.nModel = f.nModel, !.nTrainer = f.nTrainer, !.nFit = f.nFit]

\* line 69: model = MNISTClassifier(config, data_dir)
construct_model ==
    /\ frame.active /\ frame.pc = "model"
    /\ (BaseConfigKeys \cup ConfigKeys) \subseteq DOMAIN frame.args.config
    /\ frame' = [frame EXCEPT !.model = MNISTClassifier(frame.args.config, frame.args.data_dir),
                              !.nModel = @ + 1, !.pc = "trainer"]
    /\ UNCHANGED <<argv, args, pc, locals, rayCalls, entries, tuneRun, raised, exit>>

\* line 69 raises: a key of config is missing, or the library fails
construct_model_raises ==
    /\ frame.active /\ frame.pc = "model"
    /\ \E e \in (IF (BaseConfigKeys \cup ConfigKeys) \subseteq DOMAIN frame.args.config
                 THEN Exceptions ELSE {"KeyError"}) :
           raised' = [by |-> "MNISTClassifier", exc |-> e]
    /\ frame' = Unwound([frame EXCEPT !.nModel = @ + 1])
    /\ UNCHANGED <<argv, args, pc, locals, rayCalls, entries, tuneRun, exit>>

\* lines 73-78: trainer = pl.Trainer(...)
construct_trainer ==
    /\ frame.active /\ frame.pc = "trainer"
    /\ frame' = [frame EXCEPT !.trainer = Trainer(frame.args),
                              !.nTrainer = @ + 1, !.pc = "fit"]
    /\ UNCHANGED <<argv, args, pc, locals, rayCalls, entries, tuneRun, raised, exit>>

construct_trainer_raises ==
    /\ frame.active /\ frame.pc = "trainer"
    /\ \E e \in Exceptions : raised' = [by |-> "pl.Trainer", exc |-> e]
    /\ frame' = Unwound([frame EXCEPT !.nTrainer = @ + 1])
    /\ UNCHANGED <<argv, args, pc, locals, rayCalls, entries, tuneRun, exit>>

\* line 79: trainer.fit(model)
fit ==
    /\ frame.active /\ frame.pc = "fit"
    /\ frame' = [frame EXCEPT !.nFit = @ + 1, !.pc = "return"]
    /\ UNCHANGED <<argv, args, pc, locals, rayCalls, entries, tuneRun, raised, exit>>

\* line 79 in a retry loop: a failed fit is attempted again
fit_raises_retry ==
    /\ frame.active /\ frame.pc = "fit"
    /\ \E e \in Exceptions : raised' = [by |-> "trainer.fit", exc |-> e]
    /\ frame' = [frame EXCEPT !.nFit = @ + 1]
    /\ UNCHANGED <<argv, args, pc, locals, rayCalls, entries, tuneRun, exit>>

fit_raises ==
    /\ frame.active /\ frame.pc = "fit"
    /\ \E e \in Exceptions : raised' = [by |-> "trainer.fit", exc |-> e]
    /\ frame' = Unwound([frame EXCEPT !.nFit = @ + 1])
    /\ UNCHANGED <<argv, args, pc, locals, rayCalls, entries, tuneRun, exit>>

----------------------------------------------------------------------------
(* MNISTClassifier: prepare_data and the loaders, lines 23-58 *)

\* the second length of the split in train_dataloader (line 34)
TrainLoaderValLen == 5000

\* the second length of the split in val_dataloader (line 49)
ValLoaderValLen == 5000

\* the workers of the RayPlugin of the running fit, each with its model instance
Workers == 1..frame.args.num_workers

NoDataset == [prepared |-> FALSE, root |-> <<>>, train |-> FALSE, len |-> 0]

\* lines 24-28: MNIST(self.data_dir, train=True, download=True, ...); its items
\* are numbered 0..len-1
MNIST(root, train) == [prepared |-> TRUE, root |-> root, train |-> train, len |-> mnist.len]

\* torch.Generator(): a fresh generator, not yet seeded
Generator == [seeded |-> FALSE, state |-> 0]

\* generator.manual_seed(seed)
manual_seed(g, seed) == [g EXCEPT !.seeded = TRUE, !.state = seed]

\* torch.randperm(n, generator=g): a permutation of 0..n-1 that the state of
\* the generator determines
randperm(n, g) ==
    LET offset == IF g.seeded THEN 2 * g.state + 3 ELSE 1
    IN [i \in 1..n |-> (i - 1 + offset) % n]

\* torch.utils.data.random_split(dataset, lengths, generator): consecutive
\* slices of one random permutation of the indices, as Subsets of the dataset
random_split(ds, lengths, g) ==
    LET indices == randperm(lengths[1] + lengths[2], g)
    IN <<[len |-> ds.len, indices |-> SubSeq(indices, 1, lengths[1])],
         [len |-> ds.len,
          indices |-> SubSeq(indices, lengths[1] + 1, lengths[1] + lengths[2])]>>

NoLoader ==
    [made |-> FALSE, dataset |-> [len |-> 0, indices |-> <<>>], batch_size |-> 0,
     num_workers |-> 0, drop_last |-> FALSE, pin_memory |-> FALSE]

\* lines 36-42 and 51-57
DataLoader(subset, batch_size) ==
    [made |-> TRUE, dataset |-> subset, batch_size |-> batch_size,
     num_workers |-> 1, drop_last |-> TRUE, pin_memory |-> TRUE]

\* the loader calls the workers of the fit have made so far
LoaderCalls == LET Sum[i \in 0..frame.args.num_workers] ==
                       IF i = 0 THEN 0 ELSE Sum[i - 1] + ncalls[i]
               IN Sum[frame.args.num_workers]

\* lines 23-28
prepare_data(w) ==
    /\ ~dataset[w].prepared
    /\ dataset' = [dataset EXCEPT ![w] = MNIST(frame.model.data_dir, TRUE)]
    /\ UNCHANGED <<mnist, loaders, ncalls>>

\* lines 30-43 with the generator seeded by the rank of the worker
train_dataloader_rank_seed(w) ==
    /\ dataset[w].prepared /\ LoaderCalls < MaxCalls
    /\ LET ds == dataset[w]
           train_length == ds.len
           split == random_split(ds, <<train_length - TrainLoaderValLen, TrainLoaderValLen>>,
                                 manual_seed(Generator, w))
       IN loaders' = [loaders EXCEPT ![w].train = DataLoader(split[1], frame.model.batch_size)]
    /\ ncalls' = [ncalls EXCEPT ![w] = @ + 1]
    /\ UNCHANGED <<mnist, dataset>>

\* lines 30-43
train_dataloader(w) ==
    /\ dataset[w].prepared /\ LoaderCalls < MaxCalls
    /\ LET ds == dataset[w]
           train_length == ds.len
           split == random_split(ds, <<train_length - TrainLoaderValLen, TrainLoaderValLen>>,
                                 manual_seed(Generator, 0))
       IN loaders' = [loaders EXCEPT ![w].train = DataLoader(split[1], frame.model.batch_size)]
    /\ ncalls' = [ncalls EXCEPT ![w] = @ + 1]
    /\ UNCHANGED <<mnist, dataset>>

\* lines 45-58 with another seed than train_dataloader
val_dataloader_seed1(w) ==
    /\ dataset[w].prepared /\ LoaderCalls < MaxCalls
    /\ LET ds == dataset[w]
           train_length == ds.len
           split == random_split(ds, <<train_length - ValLoaderValLen, ValLoaderValLen>>,
                                 manual_seed(Generator, 1))
       IN loaders' = [loaders EXCEPT ![w].val = DataLoader(split[2], frame.model.batch_size)]
    /\ ncalls' = [ncalls EXCEPT ![w] = @ + 1]
    /\ UNCHANGED <<mnist, dataset>>

\* lines 45-58
val_dataloader(w) ==
    /\ dataset[w].prepared /\ LoaderCalls < MaxCalls
    /\ LET ds == dataset[w]
           train_length == ds.len
           split == random_split(ds, <<train_length - ValLoaderValLen, ValLoaderValLen>>,
                                 manual_seed(Generator, 0))
       IN loaders' = [loaders EXCEPT ![w].val = DataLoader(split[2], frame.model.batch_size)]
    /\ ncalls' = [ncalls EXCEPT ![w] = @ + 1]
    /\ UNCHANGED <<mnist, dataset>>

----------------------------------------------------------------------------
(* The script, lines 160-185 *)

NoTuneRun ==
    [called |-> FALSE, call |-> TuneRunCall(BindPositional(TuneMnistParams, MainTuneArgs(NoLocals))),
     trial |-> 0, failed |-> FALSE]

\* an exception that reaches the top of the script ends it
Exit(e) == [status |-> "error", exc |-> e]

\* line 160
parse_args ==
    /\ pc = "parse"
    /\ args' = parse_known_args(argv)
    /\ pc' = "settings"
    /\ UNCHANGED <<argv, locals, rayCalls, entries, tuneRun, frame, raised, exit>>

\* lines 162-165
effective_settings ==
    /\ pc = "settings"
    /\ locals' = [data_dir |-> locals.data_dir] @@ EffectiveSettings(args)
    /\ pc' = "connect"
    /\ UNCHANGED <<argv, args, rayCalls, entries, tuneRun, frame, raised, exit>>

\* lines 167-172, the call returns
connect ==
    /\ pc = "connect"
    /\ rayCalls' = Append(rayCalls, ConnectCall(args))
    /\ pc' = "data_dir"
    /\ UNCHANGED <<argv, args, locals, entries, tuneRun, frame, raised, exit>>

\* lines 167-172, the call raises
connect_raises ==
    /\ pc = "connect"
    /\ rayCalls' = Append(rayCalls, ConnectCall(args))
    /\ \E e \in Exceptions :
          /\ raised' = [by |-> ConnectCall(args).fn, exc |-> e]
          /\ exit' = Exit(raised')
    /\ pc' = "exit"
    /\ UNCHANGED <<argv, args, locals, entries, tuneRun, frame>>

\* line 174
set_data_dir ==
    /\ pc = "data_dir"
    /\ locals' = [locals EXCEPT !.data_dir = DataDir]
    /\ pc' = "dispatch"
    /\ UNCHANGED <<argv, args, rayCalls, entries, tuneRun, frame, raised, exit>>

\* lines 176-177 without the test of args.tune
call_tune_mnist_any ==
    /\ pc = "dispatch"
    /\ LET p == BindPositional(TuneMnistParams, MainTuneArgs(locals)) IN
          /\ entries' = Append(entries, [fn |-> "tune_mnist", kwargs |-> p])
          /\ tuneRun' = [called |-> TRUE, call |-> TuneRunCall(p), trial |-> 0,
                         failed |-> FALSE]
    /\ pc' = "tune.run"
    /\ UNCHANGED <<argv, args, locals, rayCalls, frame, raised, exit>>

\* lines 176-177 and 88-118: tune_mnist is called and calls tune.run
call_tune_mnist ==
    /\ pc = "dispatch" /\ args.tune
    /\ LET p == BindPositional(TuneMnistParams, MainTuneArgs(locals)) IN
          /\ entries' = Append(entries, [fn |-> "tune_mnist", kwargs |-> p])
          /\ tuneRun' = [called |-> TRUE, call |-> TuneRunCall(p), trial |-> 0,
                         failed |-> FALSE]
    /\ pc' = "tune.run"
    /\ UNCHANGED <<argv, args, locals, rayCalls, frame, raised, exit>>

\* lines 178-185: train_mnist is called with the fixed config
call_train_mnist ==
    /\ pc = "dispatch" /\ ~args.tune
    /\ entries' = Append(entries, [fn |-> "train_mnist", kwargs |-> MainTrainArgs(locals)])
    /\ frame' = NewFrame("main", MainTrainArgs(locals))
    /\ pc' = "train_mnist"
    /\ UNCHANGED <<argv, args, locals, rayCalls, tuneRun, raised, exit>>

\* train_mnist returns to line 185: the script ends
train_returns ==
    /\ pc = "train_mnist" /\ frame.active /\ frame.pc = "return"
    /\ frame' = [frame EXCEPT !.active = FALSE]
    /\ exit' = [status |-> "ok", exc |-> NoExc]
    /\ pc' = "exit"
    /\ UNCHANGED <<argv, args, locals, rayCalls, entries, tuneRun, raised>>

\* an exception leaves train_mnist at line 185: nothing catches it
train_raises ==
    /\ pc = "train_mnist" /\ frame.active /\ frame.pc = "raised"
    /\ frame' = [frame EXCEPT !.active = FALSE]
    /\ exit' = Exit(raised)
    /\ pc' = "exit"
    /\ UNCHANGED <<argv, args, locals, rayCalls, entries, tuneRun, raised>>

----------------------------------------------------------------------------
(* tune.run, called at lines 106-118 *)

\* the number of trials tune.run starts, capped by the bound of the model
NumTrials == IF tuneRun.call.num_samples < MaxTrials
             THEN tuneRun.call.num_samples ELSE MaxTrials

\* tune.run samples a config and calls the trainable
trial_start ==
    /\ pc = "tune.run" /\ ~frame.active
    /\ tuneRun.trial < NumTrials
    /\ \E c \in Samples(tuneRun.call.config) :
          frame' = NewFrame("tune", TrialArgs(tuneRun.call.trainable, c))
    /\ tuneRun' = [tuneRun EXCEPT !.trial = @ + 1]
    /\ UNCHANGED <<argv, args, pc, locals, rayCalls, entries, raised, exit>>

\* the trainable returns to tune.run
trial_returns ==
    /\ pc = "tune.run" /\ frame.active /\ frame.pc = "return"
    /\ frame' = [frame EXCEPT !.active = FALSE]
    /\ UNCHANGED <<argv, args, pc, locals, rayCalls, entries, tuneRun, raised, exit>>

\* the trainable raises: tune.run catches the exception, records the failed
\* trial and goes on
trial_raises ==
    /\ pc = "tune.run" /\ frame.active /\ frame.pc = "raised"
    /\ frame' = [frame EXCEPT !.active = FALSE]
    /\ tuneRun' = [tuneRun EXCEPT !.failed = TRUE]
    /\ raised' = NoExc
    /\ UNCHANGED <<argv, args, pc, locals, rayCalls, entries, exit>>

\* tune.run returns the analysis; line 120 prints and tune_mnist returns
tune_run_returns ==
    /\ pc = "tune.run" /\ ~frame.active
    /\ tuneRun.trial = NumTrials /\ ~tuneRun.failed
    /\ exit' = [status |-> "ok", exc |-> NoExc]
    /\ pc' = "exit"
    /\ UNCHANGED <<argv, args, locals, rayCalls, entries, tuneRun, frame, raised>>

\* tune.run raises (a trial failed, or the library fails before any trial):
\* nothing in tune_mnist or __main__ catches it
tune_run_raises ==
    /\ pc = "tune.run" /\ ~frame.active
    /\ \/ /\ tuneRun.trial = NumTrials /\ tuneRun.failed
          /\ raised' = [by |-> "tune.run", exc |-> "TuneError"]
       \/ /\ tuneRun.trial = 0
          /\ \E e \in Exceptions : raised' = [by |-> "tune.run", exc |-> e]
    /\ exit' = Exit(raised')
    /\ pc' = "exit"
    /\ UNCHANGED <<argv, args, locals, rayCalls, entries, tuneRun, frame>>

----------------------------------------------------------------------------
(* One run of the script *)

Init ==
    /\ argv \in Argv
    /\ args = NoArgs
    /\ pc = "parse"
    /\ locals = NoLocals
    /\ rayCalls = <<>>
    /\ entries = <<>>
    /\ tuneRun = NoTuneRun
    /\ frame = NoFrame
    /\ raised = NoExc
    /\ exit = Running
    /\ mnist = [len |-> 0]
    /\ dataset = <<>>
    /\ loaders = <<>>
    /\ ncalls = <<>>

Next ==
    \/ (parse_args /\ UNCHANGED dataVars)
    \/ (effective_settings /\ UNCHANGED dataVars)
    \/ (connect /\ UNCHANGED dataVars)
    \/ (connect_raises /\ UNCHANGED dataVars)
    \/ (set_data_dir /\ UNCHANGED dataVars)
    \/ (call_tune_mnist /\ UNCHANGED dataVars)
    \/ (call_train_mnist /\ UNCHANGED dataVars)
    \/ (construct_model /\ UNCHANGED dataVars)
    \/ (construct_model_raises /\ UNCHANGED dataVars)
    \/ (construct_trainer /\ UNCHANGED dataVars)
    \/ (construct_trainer_raises /\ UNCHANGED dataVars)
    \/ (fit /\ UNCHANGED dataVars)
    \/ (fit_raises /\ UNCHANGED dataVars)
    \/ (train_returns /\ UNCHANGED dataVars)
    \/ (train_raises /\ UNCHANGED dataVars)
    \/ (trial_start /\ UNCHANGED dataVars)
    \/ (trial_returns /\ UNCHANGED dataVars)
    \/ (trial_raises /\ UNCHANGED dataVars)
    \/ (tune_run_returns /\ UNCHANGED dataVars)
    \/ (tune_run_raises /\ UNCHANGED dataVars)

Spec == Init /\ [][Next]_vars

----------------------------------------------------------------------------
(* The workers of one fit: trainer.fit (line 79) has each worker prepare the *)
(* data and ask its model instance for the loaders                          *)

\* the frame of train_mnist at line 79
AtFit(f) ==
    [f EXCEPT !.model = MNISTClassifier(f.args.config, f.args.data_dir),
              !.trainer = Trainer(f.args),
              !.nModel = 1, !.nTrainer = 1, !.pc = "fit"]

\* command lines of the fits whose workers are modelled
FitArgv ==
    {a \in Argv : /\ ~a.smoke_test /\ ~a.use_gpu
                  /\ a.num_samples = <<>> /\ a.num_epochs = <<>>
                  /\ a.address = <<>> /\ a.server_address = <<>>
                  /\ a.num_workers \notin {<<>>, <<0>>}}

\* configs of the fits whose workers are modelled: the fixed one in plain
\* mode, one with another batch size in a trial
FitConfigs(tuned) ==
    IF tuned
    THEN {c \in Samples(SearchSpace) :
             c.layer_1 = 32 /\ c.layer_2 = 64 /\ c.batch_size = 128}
    ELSE {PlainConfig}

InitData ==
    /\ argv \in FitArgv
    /\ args = parse_known_args(argv)
    /\ locals = [data_dir |-> DataDir] @@ EffectiveSettings(args)
    /\ rayCalls = <<ConnectCall(args)>>
    /\ pc = IF args.tune THEN "tune.run" ELSE "train_mnist"
    /\ LET p == BindPositional(TuneMnistParams, MainTuneArgs(locals)) IN
          /\ entries = IF args.tune
                       THEN <<[fn |-> "tune_mnist", kwargs |-> p]>>
                       ELSE <<[fn |-> "train_mnist", kwargs |-> MainTrainArgs(locals)]>>
          /\ tuneRun = IF args.tune
                       THEN [called |-> TRUE, call |-> TuneRunCall(p), trial |-> 1,
                             failed |-> FALSE]
                       ELSE NoTuneRun
          /\ \E c \in FitConfigs(args.tune) :
                frame = IF args.tune
                        THEN AtFit(NewFrame("tune", TrialArgs(with_parameters(p), c)))
                        ELSE AtFit(NewFrame("main", MainTrainArgs(locals)))
    /\ raised = NoExc
    /\ exit = Running
    /\ mnist \in {[len |-> n] : n \in ValLoaderValLen..(ValLoaderValLen + MaxTrainLen)}
    /\ dataset = [w \in Workers |-> NoDataset]
    /\ loaders = [w \in Workers |-> [train |-> NoLoader, val |-> NoLoader]]
    /\ ncalls = [w \in Workers |-> 0]

NextData ==
    \/ \E w \in Workers : prepare_data(w) /\ UNCHANGED scriptVars
    \/ \E w \in Workers : train_dataloader(w) /\ UNCHANGED scriptVars
    \/ \E w \in Workers : val_dataloader(w) /\ UNCHANGED scriptVars

SpecData == InitData /\ [][NextData]_vars

----------------------------------------------------------------------------
(* Helpers of the properties *)

IsRange(seq) == {seq[i] : i \in 1..Len(seq)}

\* the value a valued flag stands for: the value given, else the default
Flag(opt, default) == IF Len(opt) = 0 THEN default ELSE opt[1]

Called == Len(entries) > 0

----------------------------------------------------------------------------
(* C1 as stated: for every command line, the worker count, GPU flag, sample *)
(* count and epoch count that reach train_mnist or tune_mnist are the       *)
(* values of --num-workers, --use-gpu, --num-samples and --num-epochs (or   *)
(* the defaults 1, False, 10, 10), untransformed.                           *)
C1_FlagsReachEntryUnchanged ==
    Called =>
        LET k == entries[1].kwargs IN
        /\ k.num_workers = Flag(argv.num_workers, 1)
        /\ k.use_gpu = argv.use_gpu
        /\ k.num_epochs = Flag(argv.num_epochs, 10)
        /\ (entries[1].fn = "tune_mnist" => k.num_samples = Flag(argv.num_samples, 10))

(* C1 amended: without --smoke-test the four values that reach the entry    *)
(* function are the flag values or their defaults 1, False, 10, 10; with    *)
(* --smoke-test they are 1, False, 1 and 1 whatever the flags say.          *)
C1_FlagsReachEntryUnlessSmokeTest ==
    Called =>
        LET k == entries[1].kwargs IN
        IF argv.smoke_test
        THEN /\ k.num_workers = 1 /\ k.use_gpu = FALSE /\ k.num_epochs = 1
             /\ (entries[1].fn = "tune_mnist" => k.num_samples = 1)
        ELSE /\ k.num_workers = Flag(argv.num_workers, 1)
             /\ k.use_gpu = argv.use_gpu
             /\ k.num_epochs = Flag(argv.num_epochs, 10)
             /\ (entries[1].fn = "tune_mnist" =>
                    k.num_samples = Flag(argv.num_samples, 10))

\* a search without --smoke-test, 0 workers given, the sample count defaulted
C1_Witness ==
    /\ Called /\ ~argv.smoke_test /\ entries[1].fn = "tune_mnist"
    /\ argv.num_workers = <<0>> /\ argv.use_gpu /\ argv.num_samples = <<>>
    /\ entries[1].kwargs.num_samples = 10

----------------------------------------------------------------------------
(* C2: no run calls more than one entry function; a run that is past the    *)
(* dispatch of line 176 has called exactly one, tune_mnist if and only if   *)
(* --tune was given and train_mnist otherwise; train_mnist called by the    *)
(* script receives the config {layer_1: 32, layer_2: 64, lr: 0.1,           *)
(* batch_size: 32} and arguments that do not depend on --num-samples.       *)
C2_ExactlyOneEntry ==
    /\ Len(entries) <= 1
    /\ (pc \in {"tune.run", "train_mnist"} \/ exit.status = "ok") => Len(entries) = 1
    /\ (frame.active \/ tuneRun.called) => Len(entries) = 1
    /\ Called =>
          /\ (entries[1].fn = "tune_mnist") <=> argv.tune
          /\ (entries[1].fn = "train_mnist") <=> ~argv.tune
          /\ tuneRun.called <=> argv.tune
          /\ entries[1].fn = "train_mnist" =>
                entries[1].kwargs =
                    [config |-> [layer_1 |-> 32, layer_2 |-> 64, lr |-> 1000,
                                 batch_size |-> 32],
                     checkpoint_dir |-> None,
                     data_dir |-> <<"/tmp", "mnist_data_">>,
                     num_epochs |-> IF argv.smoke_test THEN 1 ELSE Flag(argv.num_epochs, 10),
                     num_workers |-> IF argv.smoke_test THEN 1 ELSE Flag(argv.num_workers, 1),
                     use_gpu |-> IF argv.smoke_test THEN FALSE ELSE argv.use_gpu,
                     callbacks |-> <<>>]

\* plain training that has returned, with --num-samples given
C2_Witness ==
    /\ exit.status = "ok" /\ ~argv.tune /\ argv.num_samples = <<1>>
    /\ Len(entries) = 1 /\ entries[1].fn = "train_mnist" /\ frame.nFit = 1

----------------------------------------------------------------------------
(* C3: a run makes at most one cluster-connection call, has made exactly    *)
(* one once it is past lines 167-172, and has made it before train_mnist or *)
(* tune_mnist starts.  The call is ray.init(num_cpus=2) with --smoke-test;  *)
(* otherwise ray.util.connect(server_address) with a non-empty              *)
(* --server-address; otherwise ray.init(address=args.address), the address  *)
(* being None when --address is absent.                                     *)
C3_OneConnectionByPriority ==
    /\ Len(rayCalls) <= 1
    /\ pc \notin {"parse", "settings", "connect"} => Len(rayCalls) = 1
    /\ (Called \/ frame.active \/ tuneRun.called) => Len(rayCalls) = 1
    /\ Len(rayCalls) > 0 =>
          rayCalls[1] =
             IF argv.smoke_test
             THEN [fn |-> "ray.init", num_cpus |-> <<2>>, address |-> <<>>]
             ELSE IF argv.server_address # <<>> /\ argv.server_address # <<"">>
                  THEN [fn |-> "ray.util.connect", num_cpus |-> <<>>,
                        address |-> argv.server_address]
                  ELSE [fn |-> "ray.init", num_cpus |-> <<>>,
                        address |-> IF argv.address = <<>> THEN <<None>>
                                    ELSE argv.address]

\* --server-address wins over --address, and the entry function has started
C3_Witness ==
    /\ ~argv.smoke_test /\ argv.server_address = <<"srv:10001">>
    /\ argv.address = <<"auto">> /\ Called
    /\ rayCalls = <<[fn |-> "ray.util.connect", num_cpus |-> <<>>,
                     address |-> <<"srv:10001">>]>>

----------------------------------------------------------------------------
(* C4: the split is deterministic.  Whenever a loader call returns, its     *)
(* training subset is the training subset every earlier train_dataloader    *)
(* call returned, on the same or on any other worker's model instance, and  *)
(* likewise for the validation subset of val_dataloader.                    *)
C4_SplitDeterministic ==
    [][\A w1 \in Workers : \A w2 \in Workers :
          /\ (loaders[w1].train.made /\ loaders'[w2].train.made) =>
                loaders'[w2].train.dataset = loaders[w1].train.dataset
          /\ (loaders[w1].val.made /\ loaders'[w2].val.made) =>
                loaders'[w2].val.dataset = loaders[w1].val.dataset]_vars

\* one worker has called train_dataloader twice, another has called it once,
\* and the training subset is not empty
C4_Witness ==
    \E w1 \in Workers : \E w2 \in Workers \ {w1} :
        /\ ncalls[w1] = 2 /\ loaders[w1].train.made /\ ~loaders[w1].val.made
        /\ loaders[w2].train.made
        /\ Len(loaders[w1].train.dataset.indices) > 0

----------------------------------------------------------------------------
(* C5: no retry and no recovery.  A call of train_mnist constructs at most  *)
(* one model and one trainer and calls fit at most once, exactly once each  *)
(* when it returns; an exception of the connection call, of the model or    *)
(* trainer construction, of fit or of tune.run ends the script with that    *)
(* very exception; no step after the failing one has run; and the script    *)
(* takes no step once it has ended.                                         *)
C5_StepsOnceAndFailuresPropagate ==
    /\ [](/\ Len(rayCalls) <= 1 /\ Len(entries) <= 1
          /\ frame.nModel <= 1 /\ frame.nTrainer <= 1 /\ frame.nFit <= 1
          /\ frame.nTrainer <= frame.nModel /\ frame.nFit <= frame.nTrainer
          /\ (frame.active /\ frame.pc = "return") =>
                (frame.nModel = 1 /\ frame.nTrainer = 1 /\ frame.nFit = 1)
          /\ (frame.active /\ frame.pc = "raised") =>
                /\ raised.by \in {"MNISTClassifier", "pl.Trainer", "trainer.fit"}
                /\ raised.by = "MNISTClassifier" => (frame.nTrainer = 0 /\ frame.nFit = 0)
                /\ raised.by = "pl.Trainer" => frame.nFit = 0
          /\ (exit.status = "ok" /\ ~argv.tune) =>
                (raised = NoExc /\ frame.nFit = 1)
          /\ (exit.status = "ok" /\ argv.tune) => ~tuneRun.failed
          /\ exit.status = "error" =>
                /\ exit.exc = raised /\ raised # NoExc
                /\ raised.by \in {"ray.init", "ray.util.connect"} =>
                      (~Called /\ ~tuneRun.called /\ frame = NoFrame)
                /\ ~argv.tune =>
                      raised.by \in {"ray.init", "ray.util.connect",
                                     "MNISTClassifier", "pl.Trainer", "trainer.fit"}
                /\ (Called /\ ~argv.tune) =>
                      /\ raised.by = "MNISTClassifier" =>
                            (frame.nModel = 1 /\ frame.nTrainer = 0 /\ frame.nFit = 0)
                      /\ raised.by = "pl.Trainer" =>
                            (frame.nModel = 1 /\ frame.nTrainer = 1 /\ frame.nFit = 0)
                      /\ raised.by = "trainer.fit" =>
                            (frame.nModel = 1 /\ frame.nTrainer = 1 /\ frame.nFit = 1)
                /\ (Called /\ argv.tune) => raised.by = "tune.run")
    /\ [][exit.status # "running" => UNCHANGED vars]_vars

\* plain training ended by an exception of trainer.fit
C5_Witness ==
    /\ exit.status = "error" /\ ~argv.tune
    /\ exit.exc = [by |-> "trainer.fit", exc |-> "ValueError"]
    /\ frame.nFit = 1

----------------------------------------------------------------------------
(* C6: in search mode tune.run is given resources_per_trial with cpu = 1,   *)
(* gpu = int(use_gpu), extra_cpu = num_workers and extra_gpu = num_workers  *)
(* * int(use_gpu): 1 + num_workers CPUs in all, no GPU when use_gpu is      *)
(* false and 1 + num_workers GPUs when it is true; the trainer of a trial   *)
(* has gpus = int(use_gpu) and one RayPlugin with num_workers workers.      *)
C6_ResourcesPerTrial ==
    tuneRun.called =>
        LET k == entries[1].kwargs
            r == tuneRun.call.resources_per_trial
            g == IF k.use_gpu THEN 1 ELSE 0
        IN /\ r = [cpu |-> 1, gpu |-> g, extra_cpu |-> k.num_workers,
                   extra_gpu |-> k.num_workers * g]
           /\ r.cpu + r.extra_cpu = 1 + k.num_workers
           /\ ~k.use_gpu => (r.gpu = 0 /\ r.extra_gpu = 0)
           /\ k.use_gpu => r.gpu + r.extra_gpu = 1 + k.num_workers
           /\ frame.trainer.built =>
                 /\ frame.trainer.gpus = g
                 /\ frame.trainer.plugins =
                       <<[plugin |-> "RayPlugin", num_workers |-> k.num_workers,
                          use_gpu |-> k.use_gpu]>>

\* a trial with a trainer, for 2 workers with GPUs
C6_Witness ==
    /\ tuneRun.called /\ frame.trainer.built
    /\ entries[1].kwargs.use_gpu /\ entries[1].kwargs.num_workers = 2
    /\ tuneRun.call.resources_per_trial.extra_gpu = 2

----------------------------------------------------------------------------
(* C7: tune_mnist asks tune.run for num_samples trials that minimise the    *)
(* reported loss, the positional call of line 177 binding data_dir,         *)
(* num_samples, num_epochs, num_workers, use_gpu in this order; every trial *)
(* calls train_mnist with the data_dir, num_epochs, num_workers and use_gpu *)
(* of the script, that is with the arguments of plain training except for   *)
(* the sampled config and the one TuneReportCallback (loss and acc, at      *)
(* validation end).                                                         *)
C7_TrialsWrapTrainMnist ==
    tuneRun.called =>
        /\ entries[1].kwargs =
              [data_dir |-> locals.data_dir, num_samples |-> locals.num_samples,
               num_epochs |-> locals.num_epochs, num_workers |-> locals.num_workers,
               use_gpu |-> locals.use_gpu]
        /\ tuneRun.call.num_samples = locals.num_samples
        /\ tuneRun.trial <= tuneRun.call.num_samples
        /\ tuneRun.call.metric = "loss" /\ tuneRun.call.mode = "min"
        /\ (frame.active /\ frame.pc # "raised") =>
              /\ frame.caller = "tune"
              /\ frame.args.callbacks =
                    <<[callback |-> "TuneReportCallback",
                       metrics |-> [loss |-> "ptl/val_loss", acc |-> "ptl/val_accuracy"],
                       on |-> "validation_end"]>>
              /\ [frame.args EXCEPT
                     !.config = [layer_1 |-> 32, layer_2 |-> 64, lr |-> 1000,
                                 batch_size |-> 32],
                     !.callbacks = <<>>]
                 = [config |-> [layer_1 |-> 32, layer_2 |-> 64, lr |-> 1000,
                                batch_size |-> 32],
                    checkpoint_dir |-> None,
                    data_dir |-> <<"/tmp", "mnist_data_">>,
                    num_epochs |-> locals.num_epochs,
                    num_workers |-> locals.num_workers,
                    use_gpu |-> locals.use_gpu,
                    callbacks |-> <<>>]
              /\ frame.trainer.built =>
                    /\ frame.trainer.max_epochs = locals.num_epochs
                    /\ frame.trainer.callbacks = frame.args.callbacks

\* the second trial of a search at fit, sample and epoch counts different
C7_Witness ==
    /\ tuneRun.called /\ tuneRun.trial = 2 /\ frame.active /\ frame.pc = "fit"
    /\ locals.num_samples = 10 /\ locals.num_epochs = 2 /\ locals.num_workers = 2
    /\ frame.args.config # [layer_1 |-> 32, layer_2 |-> 64, lr |-> 1000, batch_size |-> 32]

----------------------------------------------------------------------------
(* C8: once lines 162-165 have run, with --smoke-test the settings are      *)
(* num_epochs = 1, num_workers = 1, use_gpu = False and num_samples = 1     *)
(* whatever the four flags are, and without it each setting is the value of *)
(* its flag; the entry function called is tune_mnist exactly when --tune    *)
(* was given, with or without --smoke-test.                                 *)
C8_SmokeTestOverrides ==
    /\ pc \notin {"parse", "settings"} =>
          /\ argv.smoke_test =>
                /\ locals.num_epochs = 1 /\ locals.num_workers = 1
                /\ locals.use_gpu = FALSE /\ locals.num_samples = 1
          /\ ~argv.smoke_test =>
                /\ locals.num_epochs = args.num_epochs
                /\ locals.num_workers = args.num_workers
                /\ locals.use_gpu = args.use_gpu
                /\ locals.num_samples = args.num_samples
    /\ pc # "parse" =>
          /\ args.num_epochs = Flag(argv.num_epochs, 10)
          /\ args.num_workers = Flag(argv.num_workers, 1)
          /\ args.use_gpu = argv.use_gpu
          /\ args.num_samples = Flag(argv.num_samples, 10)
          /\ args.smoke_test = argv.smoke_test /\ args.tune = argv.tune
    /\ Called => ((entries[1].fn = "tune_mnist") <=> args.tune)

\* a smoke test of the search with other workers, GPU and epochs given and
\* the sample count defaulted to 10
C8_Witness ==
    /\ argv.smoke_test /\ argv.tune /\ Called /\ entries[1].fn = "tune_mnist"
    /\ argv.num_workers = <<2>> /\ argv.use_gpu
    /\ argv.num_samples = <<>> /\ argv.num_epochs = <<2>>
    /\ locals.num_workers = 1 /\ ~locals.use_gpu /\ locals.num_samples = 1

----------------------------------------------------------------------------
(* C9: for a dataset of n >= 5000 items, the training subset of any         *)
(* train_dataloader call has n - 5000 items, the validation subset of any   *)
(* val_dataloader call has 5000 items, no item is in both, and every item   *)
(* is in one of them, although the two calls split independently.           *)
C9_SplitPartitions ==
    \A w1 \in Workers : \A w2 \in Workers :
        LET n == mnist.len
            tr == loaders[w1].train.dataset.indices
            va == loaders[w2].val.dataset.indices
        IN /\ loaders[w1].train.made =>
                 (Len(tr) = n - 5000 /\ Cardinality(IsRange(tr)) = n - 5000)
           /\ loaders[w2].val.made =>
                 (Len(va) = 5000 /\ Cardinality(IsRange(va)) = 5000)
           /\ (loaders[w1].train.made /\ loaders[w2].val.made) =>
                 /\ IsRange(tr) \cap IsRange(va) = {}
                 /\ IsRange(tr) \cup IsRange(va) = 0..(n - 1)

\* both loaders of one worker made, of a dataset of more than 5000 items
C9_Witness ==
    \E w \in Workers :
        /\ loaders[w].train.made /\ loaders[w].val.made /\ mnist.len = 5002
        /\ Len(loaders[w].train.dataset.indices) = 2

----------------------------------------------------------------------------
(* C10: the config of every call of train_mnist, from the script and from   *)
(* every trial, has the keys layer_1, layer_2, lr and batch_size with       *)
(* layer_1 in {32, 64, 128}, layer_2 in {64, 128, 256} and batch_size in    *)
(* {32, 64, 128}; MNISTClassifier.__init__ never raises KeyError and        *)
(* stores that batch size.                                                  *)
C10_ConfigComplete ==
    /\ raised.exc # "KeyError"
    /\ (frame.active /\ frame.pc # "raised") =>
          LET c == frame.args.config IN
          /\ DOMAIN c = {"layer_1", "layer_2", "lr", "batch_size"}
          /\ c.layer_1 \in {32, 64, 128}
          /\ c.layer_2 \in {64, 128, 256}
          /\ c.batch_size \in {32, 64, 128}
          /\ frame.model.built =>
                (frame.model.config = c /\ frame.model.batch_size = c.batch_size)

\* a model built in a trial with a sampled config
C10_Witness ==
    /\ frame.active /\ frame.caller = "tune" /\ frame.model.built
    /\ frame.model.batch_size = 128 /\ frame.args.config.layer_1 = 64

====
